---- MODULE Spec2Model ----
(***************************************************************************)
(* A model of sunpy/net/dataretriever/client.py: GenericClient.search      *)
(* (the attribute mapper _makeargs, the ResultSet builder                   *)
(* QueryResponse.create) and GenericClient.fetch (the path resolver        *)
(* _get_full_filenames and the submission of one download per locator).    *)
(*                                                                         *)
(* Representation.  A Python str is a sequence of one-character strings,   *)
(* so that lower-casing, concatenation and formatting are computed.  Every *)
(* Python value that can sit in a dict is a one-field record whose field   *)
(* name is its type, so that values of different types compare unequal:    *)
(*   [none |-> TRUE], [str |-> s], [tr |-> <<start, end>>] (a TimeRange),  *)
(*   [nt |-> f] (a namedtuple, f maps field names to values).              *)
(* A dict is a function whose domain is its key set.                       *)
(***************************************************************************)
EXTENDS Integers, Sequences, FiniteSets, TLC

VARIABLES
    map_,      \* GenericClient.map_, the one dict object made by __init__
    call,      \* the last search call: its arguments, what the strategy saw, its outcome
    held,      \* the QueryResponse the caller retains and hands to fetch
    heldRaw,   \* the contents of map_ when `held` was built
    fetched,   \* the last fetch call: its arguments, what it read, the paths it resolved, its outcome
    tasks,     \* the downloads submitted by the last fetch that returned
    res,       \* the Results handle returned by the last fetch that returned
    fs,        \* the paths that exist on the destination filesystem
    errCalls,  \* the invocations of the caller's error_callback, in order
    nSearch,   \* number of search calls made
    nFetch     \* number of fetch calls made

vars == <<map_, call, held, heldRaw, fetched, tasks, res, fs, errCalls, nSearch, nFetch>>

----------------------------------------------------------------------------
(* Bounds *)

MaxSearches == 2
MaxFetches == 1
MaxArgs == 2
MaxUrls == 2

----------------------------------------------------------------------------
(* Python values *)

None == [none |-> TRUE]
NotImplemented == [notimplemented |-> TRUE]
NaN == [nan |-> TRUE]
Str(s) == [str |-> s]
TimeRange(a, b) == [tr |-> <<a, b>>]

IsStr(v) == DOMAIN v = {"str"}

UpperAlpha == <<"A","B","C","D","E","F","G","H","I","J","K","L","M",
                "N","O","P","Q","R","S","T","U","V","W","X","Y","Z">>
LowerAlpha == <<"a","b","c","d","e","f","g","h","i","j","k","l","m",
                "n","o","p","q","r","s","t","u","v","w","x","y","z">>

\* the characters of class names
Chars == {UpperAlpha[i] : i \in 1..26} \cup {LowerAlpha[i] : i \in 1..26} \cup {"_"}

LowerChar[c \in Chars] ==
    IF \E i \in 1..26 : UpperAlpha[i] = c
    THEN LowerAlpha[CHOOSE i \in 1..26 : UpperAlpha[i] = c]
    ELSE c

\* str.lower()
lower(s) == [i \in 1..Len(s) |-> LowerChar[s[i]]]

\* dict operations
EmptyDict == [k \in {} |-> None]
Put(d, k, v) == [x \in (DOMAIN d) \cup {k} |-> IF x = k THEN v ELSE d[x]]
Get(d, k, default) == IF k \in DOMAIN d THEN d[k] ELSE default

\* the string keys the code writes or reads
K_TimeRange == <<"T","i","m","e","R","a","n","g","e">>
K_Time_start == <<"T","i","m","e","_","s","t","a","r","t">>
K_Time_end == <<"T","i","m","e","_","e","n","d">>
K_source == <<"s","o","u","r","c","e">>
K_provider == <<"p","r","o","v","i","d","e","r">>
K_physobs == <<"p","h","y","s","o","b","s">>
K_instrument == <<"i","n","s","t","r","u","m","e","n","t">>
K_wavelength == <<"w","a","v","e","l","e","n","g","t","h">>
K_file == <<"f","i","l","e">>
DataNotAvailable == Str(<<"D","a","t","a"," ","n","o","t"," ","A","v","a","i","l","a","b","l","e">>)

----------------------------------------------------------------------------
(* Query attributes (sunpy.net.vso.attrs), as far as _makeargs looks at    *)
(* them: the class name, the classes isinstance() finds, and attributes.   *)

N_Time == <<"T","i","m","e">>
N_Wavelength == <<"W","a","v","e","l","e","n","g","t","h">>
N_Range == <<"_","R","a","n","g","e">>
N_Instrument == <<"I","n","s","t","r","u","m","e","n","t">>
N_Extent == <<"E","x","t","e","n","t">>

T1 == Str(<<"t","1">>)
T2 == Str(<<"t","2">>)
T3 == Str(<<"t","3">>)
V1 == Str(<<"1">>)
V2 == Str(<<"2">>)
VX == Str(<<"X">>)
VY == Str(<<"Y">>)

Time(s, e) ==
    [cls |-> N_Time, bases |-> {"Time", "_Range"}, start |-> s, end |-> e,
     min |-> s, max |-> e, hasValue |-> FALSE, value |-> None]
Wavelength(a, b) ==
    [cls |-> N_Wavelength, bases |-> {"Wavelength", "_Range"}, start |-> None, end |-> None,
     min |-> a, max |-> b, hasValue |-> FALSE, value |-> None]
_Range(a, b) ==
    [cls |-> N_Range, bases |-> {"_Range"}, start |-> None, end |-> None,
     min |-> a, max |-> b, hasValue |-> FALSE, value |-> None]
Instrument(v) ==
    [cls |-> N_Instrument, bases |-> {}, start |-> None, end |-> None,
     min |-> None, max |-> None, hasValue |-> TRUE, value |-> v]
Extent ==
    [cls |-> N_Extent, bases |-> {}, start |-> None, end |-> None,
     min |-> None, max |-> None, hasValue |-> FALSE, value |-> None]

isinstance(elem, c) == c \in elem.bases

\* the attributes a caller may pass to search
Constraints ==
    {Time(T1, T2), Wavelength(V1, V1), Wavelength(V1, V2), _Range(V1, V2),
     Instrument(VX), Instrument(VY), Extent}

RECURSIVE SeqsUpTo(_, _)
SeqsUpTo(S, n) ==
    IF n = 0 THEN {<<>>}
    ELSE LET shorter == SeqsUpTo(S, n - 1)
         IN  shorter \cup {Append(q, x) : q \in shorter, x \in S}

ArgLists == SeqsUpTo(Constraints, MaxArgs)

----------------------------------------------------------------------------
(* GenericClient._makeargs *)

NoExc == "none"
Result(m, e) == [map |-> m, exc |-> e]

S_min == <<"m","i","n">>
S_max == <<"m","a","x">>
S_wave == <<"w","a","v","e">>

\* the prefix without the isinstance test
MinMaxPrefixAlwaysWave(elem) == S_wave

\* lines 164-167
MinMaxPrefix(elem) == IF isinstance(elem, "Wavelength") THEN S_wave ELSE <<>>

\* line 168-169: namedtuple("minmax", "{0}min {0}max".format(prefix))(a_min, a_max)
minmax(prefix, a_min, a_max) ==
    [nt |-> ((prefix \o S_min) :> a_min) @@ ((prefix \o S_max) :> a_max)]

\* lines 159-169: the value stored for a _Range attribute
RangeValue(elem) ==
    IF elem.min = elem.max
    THEN elem.min
    ELSE minmax(MinMaxPrefix(elem), elem.min, elem.max)

\* the loop body with the final raise left out: the attribute is skipped
AddElemSkipUnknown(m, elem) ==
    IF isinstance(elem, "Time")
    THEN Result(Put(Put(Put(m, K_TimeRange, TimeRange(elem.start, elem.end)),
                        K_Time_start, elem.start),
                    K_Time_end, elem.end), NoExc)
    ELSE IF isinstance(elem, "_Range")
    THEN Result(Put(m, lower(elem.cls), RangeValue(elem)), NoExc)
    ELSE IF elem.hasValue
    THEN Result(Put(m, lower(elem.cls), elem.value), NoExc)
    ELSE Result(m, NoExc)

\* lines 154-181: one iteration of the loop over the attributes
AddElem(m, elem) ==
    IF isinstance(elem, "Time")
    THEN Result(Put(Put(Put(m, K_TimeRange, TimeRange(elem.start, elem.end)),
                        K_Time_start, elem.start),
                    K_Time_end, elem.end), NoExc)
    ELSE IF isinstance(elem, "_Range")
    THEN Result(Put(m, lower(elem.cls), RangeValue(elem)), NoExc)
    ELSE IF elem.hasValue
    THEN Result(Put(m, lower(elem.cls), elem.value), NoExc)
    ELSE Result(m, "ValueError")

\* GenericClient._makeimap is abstract; a data source's client adds what it
\* knows a priori.
V_src == Str(<<"s","r","c">>)
V_flux == Str(<<"f","l","u","x">>)
_makeimap(m) == Put(Put(m, K_source, V_src), K_physobs, V_flux)

\* lines 153-182: the loop, then _makeimap; a raise leaves what was written
RECURSIVE MakeArgsFrom(_, _, _)
MakeArgsFrom(m, args, i) ==
    IF i > Len(args)
    THEN Result(_makeimap(m), NoExc)
    ELSE LET r == AddElem(m, args[i])
         IN  IF r.exc # NoExc THEN r ELSE MakeArgsFrom(r.map, args, i + 1)

_makeargs(m, args) == MakeArgsFrom(m, args, 1)

----------------------------------------------------------------------------
(* QueryResponseBlock, iter_urls, QueryResponse.create *)

\* self._map = map0 stores a reference to the caller's dict, not a copy; the
\* only dict ever passed is the client's map_.
SelfMap == "self.map_"
Deref(ref) == map_

\* lines 35-50; map0 is the referenced dict's contents at construction
QueryResponseBlock(ref, map0, url, time) ==
    [_map |-> ref,
     source |-> Get(map0, K_source, DataNotAvailable),
     provider |-> Get(map0, K_provider, DataNotAvailable),
     physobs |-> Get(map0, K_physobs, DataNotAvailable),
     instrument |-> Get(map0, K_instrument, DataNotAvailable),
     url |-> url,
     time |-> IF time = None
              THEN TimeRange(Get(map0, K_Time_start, None), Get(map0, K_Time_end, None))
              ELSE time,
     wave |-> Get(map0, K_wavelength, NaN)]

Min(a, b) == IF a < b THEN a ELSE b

\* lines 53-57: zip stops at the shorter of the two lists
iter_urls(ref, map0, url_list, time) ==
    [i \in 1..Min(Len(url_list), Len(time)) |->
        QueryResponseBlock(ref, map0, url_list[i], time[i])]

\* lines 68-72; time is None or a list
create(ref, map0, lst, time) ==
    iter_urls(ref, map0, lst,
              IF time = None THEN [i \in 1..Len(lst) |-> None] ELSE time.list)

----------------------------------------------------------------------------
(* The resolution strategy: _get_url_for_timerange and _get_time_for_url   *)
(* are supplied by the data source.  Its answers are inputs of search.     *)

U1 == <<"h","/","a",".","f","i","t","s">>
U2 == <<"g","/","a",".","f","i","t","s">>
U3 == <<"h","/","b",".","f","i","t","s">>
Urls == {U1, U2, U3}

\* the locator lists a strategy may return: distinct locators
UrlLists == {q \in SeqsUpTo(Urls, MaxUrls) : \A i, j \in 1..Len(q) : i # j => q[i] # q[j]}

\* a strategy that reports per-locator coverage returns one TimeRange per URL
TimeForUrl(u) == IF u = U1 THEN TimeRange(T2, T3) ELSE TimeRange(T1, T3)
PyList(q) == [list |-> q]
TimeAnswers(urls) ==
    {NotImplemented, PyList([i \in 1..Len(urls) |-> TimeForUrl(urls[i])])}

\* Python truth of what _get_time_for_url returned
Truthy(v) == IF DOMAIN v = {"list"} THEN Len(v.list) > 0 ELSE v # None

----------------------------------------------------------------------------
(* GenericClient.search *)

NoCall ==
    [n |-> 0, args |-> <<>>, exc |-> NoExc, resolved |-> FALSE, kwergs |-> EmptyDict,
     timerange |-> None, urls |-> <<>>, times |-> None, ret |-> <<>>]

\* lines 287-291: the QueryResponse built from the strategy's answers
SearchResult(ref, map0, urls, times) ==
    IF Len(urls) > 0 /\ Truthy(times) /\ times # NotImplemented
    THEN create(ref, map0, urls, times)
    ELSE create(ref, map0, urls, None)

\* lines 281-291.  keep: the caller retains the returned QueryResponse.
search(args, urls, times, keep) ==
    /\ nSearch < MaxSearches
    /\ nSearch' = nSearch + 1
    /\ \E r \in {_makeargs(map_, args)} :
           /\ map_' = r.map
           /\ IF r.exc # NoExc
              THEN /\ call' = [NoCall EXCEPT !.n = nSearch + 1, !.args = args, !.exc = r.exc]
                   /\ UNCHANGED <<held, heldRaw>>
              ELSE \E ret \in {SearchResult(SelfMap, r.map, urls, times)} :
                       /\ call' = [n |-> nSearch + 1, args |-> args, exc |-> NoExc,
                                   resolved |-> TRUE, kwergs |-> r.map,
                                   timerange |-> Get(r.map, K_TimeRange, None),
                                   urls |-> urls,
                                   times |-> IF Len(urls) > 0 THEN times ELSE None,
                                   ret |-> ret]
                       /\ held' = IF keep THEN ret ELSE held
                       /\ heldRaw' = IF keep THEN r.map ELSE heldRaw
    /\ UNCHANGED <<fetched, tasks, res, fs, errCalls, nFetch>>

----------------------------------------------------------------------------
(* Strings and paths used by fetch *)

S_file_ph == <<"{","f","i","l","e","}">>
DefaultDir == <<"/","d","l">>       \* sunpy.config.get("downloads", "download_dir")
Home == <<"/","r">>                 \* what os.path.expanduser puts for "~"
Cwd == <<"/","w">>                  \* what pathlib.Path.absolute() prepends

\* sub in s
Contains(s, sub) ==
    \E i \in 1..(Len(s) - Len(sub) + 1) : SubSeq(s, i, i + Len(sub) - 1) = sub

\* os.path.join(a, b) for a relative b
join(a, b) ==
    IF a = <<>> \/ a[Len(a)] = "/" THEN a \o b ELSE a \o <<"/">> \o b

\* os.path.expanduser
expanduser(p) ==
    IF Len(p) >= 1 /\ p[1] = "~" /\ (Len(p) = 1 \/ p[2] = "/")
    THEN Home \o SubSeq(p, 2, Len(p))
    ELSE p

\* str(pathlib.Path(p).absolute())
absolute(p) == IF Len(p) >= 1 /\ p[1] = "/" THEN p ELSE join(Cwd, p)

\* url.split('/')[-1]
LastComponent(url) ==
    LET slashes == {i \in 1..Len(url) : url[i] = "/"}
    IN  IF slashes = {} THEN url
        ELSE SubSeq(url, (CHOOSE i \in slashes : \A j \in slashes : j <= i) + 1, Len(url))

\* what str.format writes for a value
PyStr(v) ==
    IF IsStr(v) THEN v.str
    ELSE IF DOMAIN v = {"nt"}
    THEN LET names == DOMAIN v.nt
             fmin == CHOOSE f \in names : SubSeq(f, Len(f) - 2, Len(f)) = S_min
             fmax == CHOOSE f \in names : SubSeq(f, Len(f) - 2, Len(f)) = S_max
         IN  <<"m","i","n","m","a","x","(">> \o fmin \o <<"=">> \o v.nt[fmin].str
                 \o <<","," ">> \o fmax \o <<"=">> \o v.nt[fmax].str \o <<")">>
    ELSE IF DOMAIN v = {"tr"}
    THEN <<"<">> \o v.tr[1].str \o <<",">> \o v.tr[2].str \o <<">">>
    ELSE <<"N","o","n","e">>

StrResult(s, e) == [str |-> s, exc |-> e]

\* template.format(**d): every {name} is replaced by str(d[name]); a name
\* that is no key of d raises KeyError
RECURSIVE FormatFrom(_, _, _)
FormatFrom(t, d, i) ==
    IF i > Len(t) THEN StrResult(<<>>, NoExc)
    ELSE IF t[i] = "{"
    THEN LET closes == {j \in (i + 1)..Len(t) : t[j] = "}"}
         IN  IF closes = {} THEN StrResult(<<>>, "ValueError")
             ELSE LET j == CHOOSE c \in closes : \A c2 \in closes : c <= c2
                      name == SubSeq(t, i + 1, j - 1)
                  IN  IF name \notin DOMAIN d THEN StrResult(<<>>, "KeyError")
                      ELSE LET rest == FormatFrom(t, d, j + 1)
                           IN  IF rest.exc # NoExc THEN rest
                               ELSE StrResult(PyStr(d[name]) \o rest.str, NoExc)
    ELSE LET rest == FormatFrom(t, d, i + 1)
         IN  IF rest.exc # NoExc THEN rest
             ELSE StrResult(<<t[i]>> \o rest.str, NoExc)

format(t, d) == FormatFrom(t, d, 1)

\* the names a template refers to
FieldRefs(t) ==
    {SubSeq(t, i + 1, j - 1) : <<i, j>> \in
        {<<a, b>> \in (1..Len(t)) \X (1..Len(t)) :
            /\ a < b /\ t[a] = "{" /\ t[b] = "}"
            /\ \A c \in (a + 1)..(b - 1) : t[c] # "}"}}

Digits == <<"1","2","3","4","5","6","7","8","9">>

\* sunpy.util.replacement_filename: a numeric suffix goes before the
\* extension; the first candidate that does not exist is returned
Candidate(path, c) ==
    LET dots == {i \in 1..Len(path) :
                    path[i] = "." /\ \A j \in i..Len(path) : path[j] # "/"}
        cut == IF dots = {} THEN Len(path) + 1
               ELSE CHOOSE i \in dots : \A j \in dots : j <= i
    IN  SubSeq(path, 1, cut - 1) \o <<"_", Digits[c]>> \o SubSeq(path, cut, Len(path))

replacement_filename(path, existing) ==
    IF path \notin existing THEN path
    ELSE LET free == {c \in 1..Len(Digits) : Candidate(path, c) \notin existing}
         IN  Candidate(path, CHOOSE c \in free : \A c2 \in free : c <= c2)

----------------------------------------------------------------------------
(* GenericClient._get_full_filenames *)

Unbound == [unbound |-> TRUE]       \* a local name not yet assigned
partial(fname) == [partial |-> fname]   \* partial(simple_path, fname)
simple_path(p) == p.partial         \* lines 26-27, called at download time

PathsResult(ps, e) == [paths |-> ps, exc |-> e]

\* lines 244-247: the template this iteration formats; with a path that
\* holds {file} neither branch assigns, and fname keeps what it had
Template(path, fname) ==
    IF path = None THEN Str(join(DefaultDir, S_file_ph))
    ELSE IF IsStr(path) /\ ~Contains(path.str, S_file_ph)
    THEN Str(join(path.str, S_file_ph))
    ELSE fname

\* the same with a mapping that answers every missing name with ''
ResolveOneLenient(rec, filename, tmpl, existing) ==
    LET temp_dict == Put(Deref(rec._map), K_file, Str(filename))
        lenient == [k \in (DOMAIN temp_dict) \cup FieldRefs(tmpl) |->
                       IF k \in DOMAIN temp_dict THEN temp_dict[k] ELSE Str(<<>>)]
        f == format(tmpl, lenient)
    IN  IF f.exc # NoExc THEN f
        ELSE StrResult(replacement_filename(expanduser(f.str), existing), NoExc)

\* lines 249-255 for record rec: [str, exc]
ResolveOne(rec, filename, tmpl, existing) ==
    LET temp_dict == Put(Deref(rec._map), K_file, Str(filename))
        f == format(tmpl, temp_dict)
    IN  IF f.exc # NoExc THEN f
        ELSE StrResult(replacement_filename(expanduser(f.str), existing), NoExc)

\* The loop with collision avoidance that also counts the paths already
\* assigned to earlier records of the same call.
RECURSIVE FullFilenamesSiblingAware(_, _, _, _, _, _)
FullFilenamesSiblingAware(qres, filenames, path, i, fname, paths) ==
    IF i > Len(filenames) THEN PathsResult(paths, NoExc)
    ELSE LET tmpl == Template(path, fname)
         IN  IF tmpl = Unbound THEN PathsResult(<<>>, "UnboundLocalError")
             ELSE IF ~IsStr(tmpl) THEN PathsResult(<<>>, "AttributeError")
             ELSE LET r == ResolveOne(qres[i], filenames[i], tmpl.str,
                                      fs \cup {simple_path(paths[k]) : k \in 1..Len(paths)})
                  IN  IF r.exc # NoExc THEN PathsResult(<<>>, r.exc)
                      ELSE FullFilenamesSiblingAware(qres, filenames, path, i + 1,
                                   partial(r.str), Append(paths, partial(r.str)))

\* lines 242-261: the loop from iteration i, fname and paths as they are then
RECURSIVE FullFilenamesFrom(_, _, _, _, _, _)
FullFilenamesFrom(qres, filenames, path, i, fname, paths) ==
    IF i > Len(filenames) THEN PathsResult(paths, NoExc)
    ELSE LET tmpl == Template(path, fname)
         IN  IF tmpl = Unbound THEN PathsResult(<<>>, "UnboundLocalError")
             ELSE IF ~IsStr(tmpl) THEN PathsResult(<<>>, "AttributeError")
             ELSE LET r == ResolveOne(qres[i], filenames[i], tmpl.str, fs)
                  IN  IF r.exc # NoExc THEN PathsResult(<<>>, r.exc)
                      ELSE FullFilenamesFrom(qres, filenames, path, i + 1,
                                   partial(r.str), Append(paths, partial(r.str)))

_get_full_filenames(qres, filenames, path) ==
    FullFilenamesFrom(qres, filenames, path, 1, Unbound, <<>>)

----------------------------------------------------------------------------
(* sunpy.net.download: the Results handle and the Downloader, as fetch     *)
(* uses them.  Results(callback, n, done) counts the keys it still waits   *)
(* for; require([k]) adds one and returns the function that submits k's    *)
(* result; a submitted result is stored under its key and one wait is      *)
(* taken off; when none is left, map_ is replaced by done(map_) and the    *)
(* handle's event is set.  Downloader.download(url, path, callback,        *)
(* errback) calls callback on success and errback on failure.              *)

PyDict(items) == [dict |-> items]

\* Results(lambda x: None, 0, lambda map_: self._link(map_))
Results == [n |-> 0, total |-> 0, map_ |-> PyDict(<<>>), errors |-> <<>>, evt |-> FALSE]

\* Results.require(keys), once per key list
RECURSIVE RequireAll(_, _)
RequireAll(r, k) ==
    IF k = 0 THEN r
    ELSE RequireAll([r EXCEPT !.n = @ + 1, !.total = @ + 1], k - 1)

\* lines 339-344: the 'path' of every value, in the dict's order
_link(m) == PyList([i \in 1..Len(m.dict) |-> m.dict[i].value.path])

\* dict[key] = value keeps the position of a key already present
DictSet(items, key, value) ==
    IF \E i \in 1..Len(items) : items[i].key = key
    THEN [i \in 1..Len(items) |->
             IF items[i].key = key THEN [key |-> key, value |-> value] ELSE items[i]]
    ELSE Append(items, [key |-> key, value |-> value])

\* Results.poke
Poke(r) ==
    LET r1 == [r EXCEPT !.n = @ - 1]
    IN  IF r1.n = 0 THEN [r1 EXCEPT !.map_ = _link(r1.map_), !.evt = TRUE] ELSE r1

\* Results.submit(keys, value), keys = [key]
Submit(r, key, value) == Poke([r EXCEPT !.map_ = PyDict(DictSet(r.map_.dict, key, value))])

\* Results.add_error(exception)
AddError(r, exception) == Poke([r EXCEPT !.errors = Append(@, exception)])

\* number of results the handle holds
Successes(r) == IF DOMAIN r.map_ = {"dict"} THEN Len(r.map_.dict) ELSE Len(r.map_.list)
Failures(r) == Len(r.errors)

Terminal == {"Completed", "Failed"}

----------------------------------------------------------------------------
(* GenericClient.fetch *)

S_d == <<"d">>
S_d_file == <<"d","/","{","f","i","l","e","}">>
S_instr_ph == <<"{","i","n","s","t","r","u","m","e","n","t","}">>
S_tilde == <<"~">>

PosixPath(p) == [Path |-> p]
NotAPath == [int |-> TRUE]

\* the path arguments a caller may pass to fetch
PathArgs ==
    {None, Str(S_d), Str(S_d_file), Str(S_instr_ph), Str(S_tilde), PosixPath(S_d), NotAPath}

Callbacks == {None, [callable |-> TRUE]}

NoFetch == [n |-> 0, path |-> None, error_callback |-> None, exc |-> NoExc, paths |-> <<>>,
            qres |-> <<>>, map |-> EmptyDict, fs |-> {}]

\* lines 313-319: path after the type check, or the TypeError
CheckPath(path) ==
    IF path = None THEN StrResult(None, NoExc)
    ELSE IF DOMAIN path = {"Path"} THEN StrResult(Str(absolute(path.Path)), NoExc)
    ELSE IF ~IsStr(path) THEN StrResult(None, "TypeError")
    ELSE StrResult(path, NoExc)

\* lines 321-325: [paths, exc]
ResolvePaths(qres, path) ==
    LET urls == [i \in 1..Len(qres) |-> qres[i].url]
        filenames == [i \in 1..Len(urls) |-> LastComponent(urls[i])]
    IN  _get_full_filenames(qres, filenames, path)

\* lines 313-325: the type check, then the paths
FetchPaths(qres, path) ==
    LET c == CheckPath(path)
    IN  IF c.exc # NoExc THEN PathsResult(<<>>, c.exc) ELSE ResolvePaths(qres, c.str)

\* lines 333-335: one download per locator, callback = res.require([url])
Submitted(qres, paths, error_callback, batch) ==
    [i \in 1..Len(qres) |->
        [url |-> qres[i].url, path |-> paths[i], callback |-> qres[i].url,
         errback |-> error_callback, state |-> "Pending", batch |-> batch]]

\* lines 293-337.  One batch of downloads is followed at a time: fetch is
\* called again once the previous batch has run out.
fetch(path, error_callback) ==
    /\ nFetch < MaxFetches
    /\ \A i \in 1..Len(tasks) : tasks[i].state \in Terminal
    /\ nFetch' = nFetch + 1
    /\ \E r \in {FetchPaths(held, path)} :
           /\ fetched' = [n |-> nFetch + 1, path |-> path, error_callback |-> error_callback,
                          exc |-> r.exc, paths |-> r.paths, qres |-> held, map |-> map_,
                          fs |-> fs]
           /\ IF r.exc # NoExc
              THEN UNCHANGED <<tasks, res>>
              ELSE /\ res' = RequireAll(Results, Len(held))
                   /\ tasks' = Submitted(held, r.paths, error_callback, nFetch + 1)
    /\ UNCHANGED <<map_, call, held, heldRaw, fs, errCalls, nSearch>>

\* a worker takes the download up
Start(i) ==
    /\ i \in 1..Len(tasks)
    /\ tasks[i].state = "Pending"
    /\ tasks' = [tasks EXCEPT ![i].state = "InFlight"]
    /\ UNCHANGED <<map_, call, held, heldRaw, fetched, res, fs, errCalls, nSearch, nFetch>>

\* the download succeeds: the file is written at path(sock, url), and
\* callback({'path': fullname}) is called
Succeed(i) ==
    /\ i \in 1..Len(tasks)
    /\ tasks[i].state = "InFlight"
    /\ LET fullname == simple_path(tasks[i].path)
       IN  /\ fs' = fs \cup {fullname}
           /\ res' = Submit(res, tasks[i].callback, [path |-> fullname])
    /\ tasks' = [tasks EXCEPT ![i].state = "Completed"]
    /\ UNCHANGED <<map_, call, held, heldRaw, fetched, errCalls, nSearch, nFetch>>

\* the download fails: errback is called, if there is one.  The errback is
\* the error_callback fetch was given (line 335); the handle is reached
\* through callback alone, so Results.add_error is not called.
Fail(i) ==
    /\ i \in 1..Len(tasks)
    /\ tasks[i].state = "InFlight"
    /\ tasks' = [tasks EXCEPT ![i].state = "Failed"]
    /\ errCalls' = IF tasks[i].errback # None
                   THEN Append(errCalls, tasks[i].url)
                   ELSE errCalls
    /\ UNCHANGED <<map_, call, held, heldRaw, fetched, res, fs, nSearch, nFetch>>

----------------------------------------------------------------------------
(* The specification *)

F_a == <<"a",".","f","i","t","s">>
F_a_1 == <<"a","_","1",".","f","i","t","s">>

\* what the destination may hold before the client is made
ExistingFiles == {join(DefaultDir, F_a), join(DefaultDir, F_a_1), join(S_d, F_a)}

\* __init__ (lines 137-138): map_ = {}; nothing searched or fetched yet
Init ==
    /\ map_ = EmptyDict
    /\ call = NoCall
    /\ held = <<>>
    /\ heldRaw = EmptyDict
    /\ fetched = NoFetch
    /\ tasks = <<>>
    /\ res = Results
    /\ fs \in {{}, ExistingFiles}
    /\ errCalls = <<>>
    /\ nSearch = 0
    /\ nFetch = 0

\* the attribute lists of the runs that go on to fetch
CommonArgLists ==
    {<<Time(T1, T2)>>, <<Time(T1, T2), Instrument(VX)>>, <<Time(T1, T2), Instrument(VY)>>}

SearchStep(argLists, keeps) ==
    \E args \in argLists, urls \in UrlLists, keep \in keeps :
        \E times \in TimeAnswers(urls) : search(args, urls, times, keep)

\* search alone, over every attribute list
NextSearch == SearchStep(ArgLists, {TRUE})

InitSearch == Init /\ fs = {}

SpecSearch == InitSearch /\ [][NextSearch]_vars

\* search, fetch and the downloads.  The runs explored make their searches
\* before the fetch: a search after fetch has returned changes neither the
\* paths fetch resolved nor anything a download reads or writes.
Next ==
    \/ nFetch = 0 /\ SearchStep(CommonArgLists, BOOLEAN)
    \/ \E path \in PathArgs, cb \in Callbacks : fetch(path, cb)
    \/ \E i \in 1..MaxUrls : Start(i)
    \/ \E i \in 1..MaxUrls : Succeed(i)
    \/ \E i \in 1..MaxUrls : Fail(i)

Spec == Init /\ [][Next]_vars

----------------------------------------------------------------------------
(* Properties *)

Count(state) == Cardinality({i \in 1..Len(tasks) : tasks[i].state = state})
AllTerminal == \A i \in 1..Len(tasks) : tasks[i].state \in Terminal
FetchReturned == fetched.n > 0 /\ fetched.exc = NoExc

\* C1: once the K downloads of a fetch have all ended, M of them completed
\* and K-M failed, the handle holds exactly M results and exactly K-M
\* errors, and a supplied error_callback has been called exactly K-M times.
C1_HandleCountsOutcomes ==
    (FetchReturned /\ AllTerminal) =>
        /\ Successes(res) = Count("Completed")
        /\ Failures(res) = Count("Failed")
        /\ (fetched.error_callback # None => Len(errCalls) = Count("Failed"))

\* The descriptor a fresh client would build from these attributes alone.
FreshDescriptor(args) == _makeargs(EmptyDict, args).map

\* C2: the descriptor a search call hands to the resolution strategy is the
\* one built from that call's attributes alone (plus the strategy's a-priori
\* metadata): nothing an earlier call wrote is in it.
C2_DescriptorFreshPerCall ==
    call.resolved => call.kwergs = FreshDescriptor(call.args)

\* C3: the raw-fields mapping of every record of a ResultSet the caller
\* holds is what it was when the ResultSet was built, whatever the client
\* has done since.
C3_RecordsImmutable ==
    \A i \in 1..Len(held) : Deref(held[i]._map) = heldRaw

\* The time interval of the call's own attributes: the last Time among them.
OwnTime(args) ==
    LET times == {i \in 1..Len(args) : isinstance(args[i], "Time")}
    IN  IF times = {} THEN TimeRange(None, None)
        ELSE LET i == CHOOSE k \in times : \A k2 \in times : k2 <= k
             IN  TimeRange(args[i].start, args[i].end)

TimesSupplied(c) == DOMAIN c.times = {"list"}

\* C4: search returns one record per locator the strategy returned, in the
\* strategy's order, record i holding locator i; its time is the strategy's
\* i-th interval when the strategy gave per-locator times and the query's own
\* interval when it did not; no locators give an empty ResultSet.
C4_OneRecordPerLocator ==
    call.resolved =>
        /\ Len(call.ret) = Len(call.urls)
        /\ \A i \in 1..Len(call.ret) :
              /\ call.ret[i].url = call.urls[i]
              /\ call.ret[i].time = IF TimesSupplied(call) THEN call.times.list[i]
                                    ELSE OwnTime(call.args)

\* The template of section 4.4 step 1, for a path that passed the type check.
IntendedTemplate(path) ==
    IF path = None THEN join(DefaultDir, S_file_ph)
    ELSE IF Contains(path.str, S_file_ph) THEN path.str
    ELSE join(path.str, S_file_ph)

\* the fields of a template that the mapping d (with 'file') does not have
MissingFields(t, d) == FieldRefs(t) \ ((DOMAIN d) \cup {K_file})

FetchTemplate == IntendedTemplate(CheckPath(fetched.path).str)
FetchPathOk == fetched.n > 0 /\ CheckPath(fetched.path).exc = NoExc

\* C5: whichever of the three cases the path argument falls in, fetch
\* resolves one path per record, and record i's path is the case's template
\* with file = the i-th filename and the record's raw fields substituted
\* (then user-expanded and moved off an existing file).
C5_TemplateByThreeCases ==
    (FetchPathOk /\ MissingFields(FetchTemplate, fetched.map) = {}) =>
        /\ fetched.exc = NoExc
        /\ Len(fetched.paths) = Len(fetched.qres)
        /\ \A i \in 1..Len(fetched.paths) :
              simple_path(fetched.paths[i]) =
                  replacement_filename(
                      expanduser(format(FetchTemplate,
                                        Put(fetched.map, K_file,
                                            Str(LastComponent(fetched.qres[i].url)))).str),
                      fetched.fs)

Unsupported(elem) ==
    /\ ~isinstance(elem, "Time")
    /\ ~isinstance(elem, "_Range")
    /\ ~elem.hasValue

HasUnsupported(args) == \E i \in 1..Len(args) : Unsupported(args[i])

\* C6: a search call with an attribute of none of the three shapes raises
\* ValueError; the strategy is not invoked and no ResultSet is returned.
C6_UnsupportedIsAnError ==
    (call.n > 0 /\ HasUnsupported(call.args)) =>
        /\ call.exc = "ValueError"
        /\ ~call.resolved
        /\ call.ret = <<>>

C6_Witness ==
    /\ call.n > 0
    /\ HasUnsupported(call.args)
    /\ Len(call.args) = 2
    /\ ~Unsupported(call.args[1])
    /\ call.exc = "ValueError"

IsRange(elem) == isinstance(elem, "_Range") /\ ~isinstance(elem, "Time")

\* the last attribute of its class in the call
LastOfClass(args, i) == \A j \in (i + 1)..Len(args) : args[j].cls # args[i].cls

K__range == <<"_","r","a","n","g","e">>
S_wavemin == <<"w","a","v","e","m","i","n">>
S_wavemax == <<"w","a","v","e","m","a","x">>

\* C7: for a closed range (the last of its class in the call) the
\* descriptor holds, under the lower-cased class name, min itself when
\* min = max, and otherwise a record of exactly the two fields wavemin and
\* wavemax for a Wavelength, min and max for any other range.
C7_RangeScalarOrMinMax ==
    call.resolved =>
        \A i \in 1..Len(call.args) :
            LET elem == call.args[i]
                key == IF elem.cls = N_Wavelength THEN K_wavelength ELSE K__range
            IN  (IsRange(elem) /\ LastOfClass(call.args, i)) =>
                    /\ key \in DOMAIN call.kwergs
                    /\ IF elem.min = elem.max
                       THEN call.kwergs[key] = elem.min
                       ELSE /\ DOMAIN call.kwergs[key] = {"nt"}
                            /\ DOMAIN call.kwergs[key].nt =
                                   IF elem.cls = N_Wavelength
                                   THEN {S_wavemin, S_wavemax}
                                   ELSE {S_min, S_max}
                            /\ \A f \in DOMAIN call.kwergs[key].nt :
                                   call.kwergs[key].nt[f] =
                                       IF f \in {S_min, S_wavemin} THEN elem.min ELSE elem.max

C7_Witness ==
    /\ call.resolved
    /\ call.args = <<Wavelength(V1, V1), _Range(V1, V2)>>
    /\ call.kwergs[K_wavelength] = V1
    /\ DOMAIN call.kwergs[K__range].nt = {S_min, S_max}

FetchMissesField ==
    /\ FetchPathOk
    /\ Len(fetched.qres) > 0
    /\ MissingFields(FetchTemplate, fetched.map) # {}

\* C8: when the destination template refers to a field the records do not
\* have, fetch raises, and none of its downloads has been created.
C8_MissingFieldFailsFirst ==
    FetchMissesField =>
        /\ fetched.exc # NoExc
        /\ \A i \in 1..Len(tasks) : tasks[i].batch # fetched.n

C8_Witness ==
    /\ FetchMissesField
    /\ Len(fetched.qres) = 2
    /\ fetched.exc = "KeyError"

\* C9: once every download of a fetch has ended, completed or failed, the
\* handle is complete.
C9_HandleCompletes ==
    (FetchReturned /\ Len(tasks) > 0 /\ AllTerminal) => res.evt

SameFilename(qres, i, j) == LastComponent(qres[i].url) = LastComponent(qres[j].url)

\* C10: two records of one fetch whose locators end in the same filename
\* get the same destination path.
C10_SiblingsShareAPath ==
    FetchReturned =>
        \A i, j \in 1..Len(fetched.paths) :
            SameFilename(fetched.qres, i, j) => fetched.paths[i] = fetched.paths[j]

\* two such records, their path taken and replaced
C10_Witness ==
    /\ FetchReturned
    /\ Len(fetched.paths) = 2
    /\ SameFilename(fetched.qres, 1, 2)
    /\ join(DefaultDir, F_a) \in fetched.fs
    /\ simple_path(fetched.paths[1]) = Candidate(join(DefaultDir, F_a), 2)
    /\ simple_path(fetched.paths[2]) = Candidate(join(DefaultDir, F_a), 2)

====
